---- MODULE Spec2Model ----
(***************************************************************************)
(* A model of arenna_viewer (src/main.py): the capture threads, the        *)
(* StreamState controller that starts and stops them, the HTTP handlers    *)
(* that look accessors up, the MJPEG stream encoder and the mosaic getters.*)
(*                                                                         *)
(* Threads are interleaved at the granularity of the statements that touch *)
(* shared state (CPython runs one bytecode at a time, and cv2 releases the *)
(* interpreter lock inside VideoCapture(), read() and release()).          *)
(* The capture threads' time is the wall clock of time.time(), in whole    *)
(* seconds; the stream encoder's times are counted in ticks of 1/600 s.    *)
(***************************************************************************)
EXTENDS Integers, Sequences, FiniteSets, TLC

\* ---------------------------------------------------------------- bounds
MaxCalls == 2        \* calls of start_streams / stop_all made in one run
MaxActors == 2       \* CaptureThread objects created in one run
MaxTime == 3         \* seconds the clock advances in one run
MaxChannel == 2      \* channels a viewer asks for are 1..MaxChannel
StartTime == 1000    \* value of time.time() when the run begins
MaxPub == 2          \* frames one capture thread publishes in one run
MaxWork == 60        \* ticks one encoder iteration spends working
MaxSince == 120      \* ticks followed after a chunk until the next one
MaxSources == 5      \* accessors given to a mosaic getter
MaxCols == 3         \* cols arguments of the grid are 1..MaxCols

\* ------------------------------------------------------ program constants
ReconnectDelay == 2  \* reconnect_delay_s
MantissaBits == 52   \* bits after the leading one in a Python float

\* The encoder's times are in ticks of 1/600 s, in which its two sleeps are
\* whole numbers: 0.03 s is 18 ticks and 1/12 s is 50.
TicksPerSecond == 600
NapTicks == 18       \* time.sleep(0.03)
DefaultFps == 12     \* mjpeg_generator(..., fps=12, ...)
WorkTick == 10       \* the step in which working time is observed
Rates == {12, 20}    \* fps arguments
CellHeights == {100, 180, 190}   \* cell_h arguments
Shapes == {<<200, 100>>, <<300, 150>>, <<300, 100>>}   \* <<rows, cols>> of frames

Callers == {"t1", "t2"}          \* threads that call into STATE
Viewers == {1, 2}                \* HTTP clients of /ch<N>.mjpg
ActorIds == 1..MaxActors
Channels == 1..MaxChannel
TargetHeights == {180, 360}      \* target_height arguments
SourceDims == {<<1080, 1920>>, <<480, 704>>}   \* <<rows, cols>> of frames the DVR sends

\* The channels argument of start_streams, before coercion.
IntEl(n) == [t |-> "int", v |-> n]
StrEl(n) == [t |-> "str", v |-> n]      \* the string str(n)
BadEl == [t |-> "bad", v |-> 0]         \* a non-numeric string
RawInt(n) == [type |-> "int", v |-> n, elems |-> <<>>]
RawList(s) == [type |-> "list", v |-> 0, elems |-> s]
RawOther == [type |-> "other", v |-> 0, elems |-> <<>>]
RawInputs ==
  { RawInt(1),
    RawList(<<IntEl(1)>>), RawList(<<IntEl(2)>>),
    RawList(<<IntEl(1), IntEl(2)>>), RawList(<<StrEl(2), IntEl(1)>>),
    RawList(<<IntEl(1), IntEl(1)>>),
    RawList(<<BadEl>>), RawOther }

\* ---------------------------------------------------------------- helpers
Max(a, b) == IF a >= b THEN a ELSE b
Range(s) == { s[i] : i \in 1..Len(s) }

\* A Python dict as the sequence of its <<key, value>> items in insertion order.
DictKeys(d) == { d[i][1] : i \in 1..Len(d) }
DictHas(d, k) == k \in DictKeys(d)
DictGet(d, k) == LET i == CHOOSE j \in 1..Len(d) : d[j][1] = k IN d[i][2]
DictSet(d, k, v) ==
  IF DictHas(d, k)
    THEN [i \in 1..Len(d) |-> IF d[i][1] = k THEN <<k, v>> ELSE d[i]]
    ELSE Append(d, <<k, v>>)
DictValues(d) == [i \in 1..Len(d) |-> d[i][2]]

\* _coerce_channels: an int gives a 1-tuple, a list/tuple/set gives the tuple
\* of int(x) of its elements (ValueError on a non-numeric one), anything else
\* raises TypeError.
ElOk(e) == e.t \in {"int", "str"}
CoerceChannels(chs) ==
  IF chs.type = "int" THEN [ok |-> TRUE, val |-> <<chs.v>>]
  ELSE IF chs.type = "list"
    THEN IF \A i \in 1..Len(chs.elems) : ElOk(chs.elems[i])
           THEN [ok |-> TRUE, val |-> [i \in 1..Len(chs.elems) |-> chs.elems[i].v]]
           ELSE [ok |-> FALSE, val |-> <<>>]
  ELSE [ok |-> FALSE, val |-> <<>>]

\* Python floats are IEEE doubles: a mantissa of 1 + MantissaBits bits,
\* rounded to nearest, ties to the even mantissa.
RECURSIVE Pow2(_)
Pow2(n) == IF n = 0 THEN 1 ELSE 2 * Pow2(n - 1)
RECURSIVE Log2Floor(_)
Log2Floor(n) == IF n < 2 THEN 0 ELSE 1 + Log2Floor(n \div 2)
\* a/b brought into [1, 2): <<a', b', e>> with a/b = (a'/b') * 2^e
RECURSIVE Normalised(_, _, _)
Normalised(a, b, e) ==
  IF a >= 2 * b THEN Normalised(a, 2 * b, e + 1)
  ELSE IF a < b THEN Normalised(2 * a, b, e - 1)
  ELSE <<a, b, e>>
\* n more bits of the quotient by long division: <<remainder, last bit>>
RECURSIVE MantissaRest(_, _, _, _)
MantissaRest(rem, b, bit, n) ==
  IF n = 0 THEN <<rem, bit>>
  ELSE MantissaRest((2 * rem) % b, b, (2 * rem) \div b, n - 1)

\* int(cols * (h / d)) for integers cols >= 0, h >= 0, d >= 1. When d does
\* not divide cols*h, the rounding errors are far smaller than the distance of
\* cols*h/d from an integer and the result is its floor. When it does, with
\* N = cols*h/d: the quotient h/d is rounded to a double; if it was rounded
\* down by more than half the distance between N and the double below N
\* allows, the product is rounded to that double and int() gives N - 1.
FloatScale(cols, h, d) ==
  IF cols * h = 0 \/ (cols * h) % d # 0 THEN (cols * h) \div d
  ELSE LET N == (cols * h) \div d
           nm == Normalised(h, d, 0)
           b == nm[2]
           e == nm[3]
           last == MantissaRest(nm[1] - b, b, 1, MantissaBits)
           rem == last[1]
           roundedDown == rem # 0 /\ (2 * rem < b \/ (2 * rem = b /\ last[2] = 0))
           k == Log2Floor(N)
           half == IF N = Pow2(k) THEN 4 ELSE 2
       IN IF roundedDown /\ cols * rem * half > b * Pow2(k - e) THEN N - 1 ELSE N

\* CaptureThread._resize_h: r = h / max(1, rows); (rows, cols) -> (h, int(cols * r))
ResizeH(dims, h) == <<h, FloatScale(dims[2], h, Max(1, dims[1]))>>

\* ------------------------------------------------------------------ state
VARIABLES
  now,        \* time.time()
  lock,       \* STATE.lock: "" when free, else the thread that holds it
  threads,    \* STATE.threads: dict channel -> actor
  getters,    \* STATE.getters: dict channel -> actor whose get_frame it is
  config,     \* STATE.config: the fields the model needs
  cpc,        \* where each calling thread is
  cargs,      \* the arguments (and locals) of its call in progress
  ncalls,     \* calls made so far
  lastDone,   \* the last start_streams call that returned normally
  nact,       \* CaptureThread objects created so far
  actor,      \* the CaptureThread objects
  look,       \* what the last STATE.getters.get(ch) of a handler saw
  vpc,        \* where each viewer's mjpeg_generator is
  vsrc,       \* the actor whose get_frame the generator was given
  vframe,     \* the generator's local variable frame
  venc,       \* the generator's rate, and the times and chunks of its iteration
  marks,      \* the overlays viewers have drawn: <<buffer, viewer>> pairs
  mos         \* a mosaic getter: its closure variables, what its accessors
              \* return, and what its call returned

ctlVars == <<lock, threads, getters, config, cpc, cargs, ncalls, lastDone>>
viewVars == <<look, vpc, vsrc, vframe, venc, marks>>
vars == <<now, lock, threads, getters, config, cpc, cargs, ncalls, lastDone,
          nact, actor, look, vpc, vsrc, vframe, venc, marks, mos>>

\* An image buffer is named by who allocated it: <<"a", actor, k>> or
\* <<"v", viewer, k>>. A frame value is a reference to a buffer with the
\* (immutable after publication) kind and size of its picture, whether the
\* label has been drawn on it, and its number among the frames its actor
\* has published.
NoId == <<"", 0, 0>>
NoFrame == [id |-> NoId, kind |-> "none", h |-> 0, w |-> 0, seq |-> 0, label |-> FALSE]
NoLook == [ch |-> 0, found |-> FALSE, old |-> {}, new |-> {}]
\* the first name <<who, n, k>> that no reference in held uses
FreshId(who, n, held) ==
  <<who, n, CHOOSE k \in 1..(Cardinality(held) + 1) :
              /\ <<who, n, k>> \notin held
              /\ \A j \in 1..(k - 1) : <<who, n, j>> \in held>>
NoArgs == [op |-> "", id |-> 0, chs |-> <<>>, th |-> 0, old |-> {}, snap |-> <<>>,
           rem |-> <<>>, ch |-> 0, t |-> 0]
NoCall == [id |-> 0, chs |-> <<>>, th |-> 0]

\* mjpeg_generator as it is entered with target rate fps
NewEnc(fps) ==
  [ fps |-> fps,
    work |-> 0,       \* ticks spent so far in this iteration pulling, drawing, encoding
    since |-> -1,     \* ticks since the last chunk was yielded (-1: none yet)
    ok |-> FALSE,     \* the ok of cv2.imencode in this iteration
    sent |-> 0 ]      \* chunks yielded in this iteration
NoEnc == NewEnc(0)

\* A VideoCapture object: whether the connection came up, how often
\* release() was called on it, and how often by a thread other than the actor's.
NewHandle(opened) == [opened |-> opened, rel |-> 0, relOther |-> 0]
NoHandle == [opened |-> FALSE, rel |-> 0, relOther |-> 0]

\* CaptureThread.__init__
NewActor(ch, th, gen, t) ==
  [ ch |-> ch, gen |-> gen, target_h |-> th,
    born |-> t,              \* when start() was called
    pc |-> "start",          \* position of the thread in run()
    stop_flag |-> FALSE,
    cap |-> 0,               \* self.cap: 0 is None, 1 is the object in handle
    handle |-> NoHandle,     \* the VideoCapture object self.cap refers to
    dropped |-> {},          \* the VideoCapture objects self.cap referred to before
    frame |-> NoFrame,       \* self.frame
    npub |-> 0,              \* frames published so far
    last_try |-> 0,
    last_attempt |-> 0,      \* when the read loop last began a reopen (0: never)
    gap |-> -1,              \* time between its last two reopens (-1: fewer than two)
    succ |-> FALSE ]         \* some open or read has succeeded
Unborn == [NewActor(0, 0, 0, 0) EXCEPT !.pc = "unborn"]

\* What an accessor returns to a mosaic getter: None, or an image of a shape.
NoImg == [kind |-> "none", h |-> 0, w |-> 0]
Img(h, w) == [kind |-> "img", h |-> h, w |-> w]
\* What a mosaic getter's call has returned: nothing yet, None, or a canvas
\* with the slices that were assigned into it.
NotCalled == [kind |-> "pending", h |-> 0, w |-> 0, pastes |-> <<>>]
NoCanvas == [kind |-> "none", h |-> 0, w |-> 0, pastes |-> <<>>]
NoMosaic == [mode |-> "", res |-> <<>>, cols |-> 0, cell_h |-> 0, out |-> NotCalled]

\* StreamState.__init__
Init ==
  /\ now = StartTime
  /\ lock = ""
  /\ threads = <<>>
  /\ getters = <<>>
  /\ config = [channels |-> <<1, 2>>, target_height |-> 360, by |-> 0]
  /\ cpc = [c \in Callers |-> "idle"]
  /\ cargs = [c \in Callers |-> NoArgs]
  /\ ncalls = 0
  /\ lastDone = NoCall
  /\ nact = 0
  /\ actor = [a \in ActorIds |-> Unborn]
  /\ look = NoLook
  /\ vpc = [v \in Viewers |-> "idle"]
  /\ vsrc = [v \in Viewers |-> 0]
  /\ vframe = [v \in Viewers |-> NoFrame]
  /\ venc = [v \in Viewers |-> NoEnc]
  /\ marks = {}
  /\ mos = NoMosaic

\* ------------------------------------------------------- CaptureThread
Usable(r) == r.cap # 0 /\ r.handle.opened /\ r.handle.rel = 0

\* self.cap.release() on the current handle, by the actor's thread or another.
ReleaseCap(r, other) ==
  IF r.cap = 0 THEN r
  ELSE [r EXCEPT !.handle.rel = @ + 1,
                 !.handle.relOther = @ + (IF other THEN 1 ELSE 0)]

\* _open, first half: if self.cap is not None: self.cap.release()
OpenBegin(r) == ReleaseCap(r, FALSE)

\* _open, second half: self.cap = cv2.VideoCapture(url); on an exception
\* self.cap = None. Either way the old object is no longer referenced.
OpenOutcomes == {"opened", "closed", "raise"}
Drop(r) == IF r.cap = 0 THEN r.dropped ELSE r.dropped \cup {r.handle}
OpenEnd(r, outcome) ==
  IF outcome = "raise"
    THEN [r EXCEPT !.cap = 0, !.handle = NoHandle, !.dropped = Drop(r)]
    ELSE [r EXCEPT !.cap = 1, !.handle = NewHandle(outcome = "opened"),
                   !.dropped = Drop(r),
                   !.succ = @ \/ outcome = "opened"]

\* ph = np.zeros((target_h, target_h, 3)); with self.lock: self.frame = ph
\* A new array gets a name no live reference uses; what was drawn on an
\* earlier array of that name is gone with it.
ViewerRefs == { vframe[v].id : v \in Viewers } \ {NoId}
ActorBuf(a) == FreshId("a", a, ViewerRefs)

\* (mutant) the failed branch continues without storing the placeholder
KeepFrame(a, r) == r

\* ph = np.zeros((target_h, target_h, 3)); with self.lock: self.frame = ph
Placeholder(a, r) ==
  [id |-> ActorBuf(a), kind |-> "ph", h |-> r.target_h, w |-> r.target_h,
   seq |-> r.npub + 1, label |-> TRUE]
PublishPlaceholder(a, r) ==
  [r EXCEPT !.frame = Placeholder(a, r), !.npub = @ + 1]

\* fr = self._resize_h(frame, target_h); cv2.putText(fr, self.label, ...);
\* with self.lock: self.frame = fr
LiveFrame(a, r, dims) ==
  LET d == ResizeH(dims, r.target_h) IN
    [id |-> ActorBuf(a), kind |-> "live", h |-> d[1], w |-> d[2],
     seq |-> r.npub + 1, label |-> TRUE]
\* (mutant) the resized frame is stored before the label is drawn on it
PublishUnfinished(a, r, dims) ==
  [r EXCEPT !.frame = [LiveFrame(a, r, dims) EXCEPT !.label = FALSE], !.npub = @ + 1]

PublishFrame(a, r, dims) ==
  [r EXCEPT !.frame = LiveFrame(a, r, dims), !.npub = @ + 1]

\* the run is followed for MaxPub publications of each capture thread
CanPublish(r) == r.npub < MaxPub

\* the overlays on arrays that something still refers to
Refs(act, vf) == { act[a].frame.id : a \in ActorIds } \cup { vf[v].id : v \in Viewers }
Gc(M, refs) == { m \in M : m[1] \in refs }

Step(a, r) == /\ actor' = [actor EXCEPT ![a] = r]
              /\ UNCHANGED <<now, mos, ctlVars, nact, look, vpc, vsrc, vframe, venc>>
              /\ marks' = Gc(IF r.frame = actor[a].frame THEN marks
                             ELSE { m \in marks : m[1] # r.frame.id },
                             Refs(actor', vframe'))

\* run: self._open() before the loop
RunOpen(a) ==
  /\ actor[a].pc = "start"
  /\ Step(a, [OpenBegin(actor[a]) EXCEPT !.pc = "opening"])

RunOpened(a) ==
  /\ actor[a].pc = "opening"
  /\ \E o \in OpenOutcomes :
       Step(a, [OpenEnd(actor[a], o) EXCEPT !.pc = "loop"])

\* while not self.stop_flag
LoopTest(a) ==
  /\ actor[a].pc = "loop"
  /\ Step(a, [actor[a] EXCEPT !.pc = IF actor[a].stop_flag THEN "done" ELSE "read"])

\* self.cap.read() if self.cap is not None else (False, None); a read of a
\* handle that is not connected returns (False, None) at once.
ReadBegin(a) ==
  /\ actor[a].pc = "read"
  /\ Step(a, [actor[a] EXCEPT !.pc = IF Usable(actor[a]) THEN "reading" ELSE "failed"])

\* read() returns a failure, or a frame that is resized and published. A
\* release() by another thread while the read is in progress leaves the
\* result open.
ReadEnd(a) ==
  /\ actor[a].pc = "reading"
  /\ \/ Step(a, [actor[a] EXCEPT !.pc = "failed"])
     \/ \E d \in SourceDims :
          /\ CanPublish(actor[a])
          /\ Step(a, [PublishFrame(a, actor[a], d) EXCEPT !.pc = "loop", !.succ = TRUE])

\* (mutant) every failed read reopens, whatever the time
ReopenAlways(r) == TRUE

\* if time.time() - last_try >= self.reconnect_delay_s: self._open() ...
ReopenDue(r) == now - r.last_try >= ReconnectDelay

\* the failed branch when a reopen is due: _open begins
FailedReopen(a) ==
  /\ actor[a].pc = "failed"
  /\ ReopenDue(actor[a])
  /\ Step(a, [OpenBegin(actor[a]) EXCEPT
                !.pc = "reopening",
                !.gap = IF actor[a].last_attempt = 0 THEN -1
                        ELSE now - actor[a].last_attempt,
                !.last_attempt = now])

\* ... _open returns; last_try = time.time(); the placeholder is published;
\* time.sleep(0.05) begins
Reopened(a) ==
  /\ actor[a].pc = "reopening"
  /\ CanPublish(actor[a])
  /\ \E o \in OpenOutcomes :
       Step(a, [PublishPlaceholder(a, OpenEnd(actor[a], o)) EXCEPT
                  !.pc = "sleep", !.last_try = now])

\* the failed branch when no reopen is due: the placeholder is published;
\* time.sleep(0.05) begins
FailedSkip(a) ==
  /\ actor[a].pc = "failed"
  /\ ~ReopenDue(actor[a])
  /\ CanPublish(actor[a])
  /\ Step(a, [PublishPlaceholder(a, actor[a]) EXCEPT !.pc = "sleep"])

\* time.sleep(0.05) returns; continue
Wake(a) ==
  /\ actor[a].pc = "sleep"
  /\ Step(a, [actor[a] EXCEPT !.pc = "loop"])

ActorStep(a) ==
  \/ RunOpen(a) \/ RunOpened(a) \/ LoopTest(a) \/ ReadBegin(a) \/ ReadEnd(a)
  \/ FailedReopen(a) \/ Reopened(a) \/ FailedSkip(a) \/ Wake(a)

\* ------------------------------------------------------------------ clock
\* A second goes by while every capture thread is inside a call that blocks:
\* VideoCapture() or read() (up to the 5 s ffmpeg timeout set in __init__),
\* or time.sleep.
Blocking == {"opening", "reading", "reopening", "sleep", "done", "unborn"}
Tick ==
  /\ now < StartTime + MaxTime
  /\ \A a \in ActorIds : actor[a].pc \in Blocking
  /\ now' = now + 1
  /\ UNCHANGED <<mos, ctlVars, nact, actor, viewVars>>

\* ------------------------------------------------------------ StreamState
InStart(c) == cargs[c].op = "start" /\ cpc[c] # "idle"
\* actors that calls in progress are still going to create
Pending(c) == IF InStart(c) THEN Len(cargs[c].rem) ELSE 0
RECURSIVE SumPending(_)
SumPending(S) ==
  IF S = {} THEN 0
  ELSE LET c == CHOOSE x \in S : TRUE IN Pending(c) + SumPending(S \ {c})

\* (mutant) the argument is coerced inside the with block, after the old
\* configuration has been dropped
CallStartDropsFirst(c, raw, th) ==
  /\ cpc[c] = "idle"
  /\ ncalls < MaxCalls
  /\ ncalls' = ncalls + 1
  /\ LET r == CoerceChannels(raw) IN
       IF r.ok
         THEN /\ nact + SumPending(Callers) + Len(r.val) <= MaxActors
              /\ cpc' = [cpc EXCEPT ![c] = "acquire"]
              /\ cargs' = [cargs EXCEPT ![c] =
                   [NoArgs EXCEPT !.op = "start", !.id = ncalls + 1,
                                  !.chs = r.val, !.th = th, !.rem = r.val]]
              /\ UNCHANGED <<threads, getters>>
         ELSE /\ lock = ""
              /\ threads' = <<>>
              /\ getters' = <<>>
              /\ UNCHANGED <<cpc, cargs>>
  /\ UNCHANGED <<now, mos, lock, config, lastDone, nact, actor, viewVars>>

\* start_streams is entered: channels = _coerce_channels(channels)
CallStart(c, raw, th) ==
  /\ cpc[c] = "idle"
  /\ ncalls < MaxCalls
  /\ ncalls' = ncalls + 1
  /\ LET r == CoerceChannels(raw) IN
       IF r.ok
         THEN /\ nact + SumPending(Callers) + Len(r.val) <= MaxActors
              /\ cpc' = [cpc EXCEPT ![c] = "acquire"]
              /\ cargs' = [cargs EXCEPT ![c] =
                   [NoArgs EXCEPT !.op = "start", !.id = ncalls + 1,
                                  !.chs = r.val, !.th = th, !.rem = r.val]]
         ELSE UNCHANGED <<cpc, cargs>>     \* the exception leaves the method
  /\ UNCHANGED <<now, mos, lock, threads, getters, config, lastDone, nact, actor, viewVars>>

\* stop_all is entered
CallStopAll(c) ==
  /\ cpc[c] = "idle"
  /\ ncalls < MaxCalls
  /\ ncalls' = ncalls + 1
  /\ cpc' = [cpc EXCEPT ![c] = "acquire"]
  /\ cargs' = [cargs EXCEPT ![c] = [NoArgs EXCEPT !.op = "stop", !.id = ncalls + 1]]
  /\ UNCHANGED <<now, mos, lock, threads, getters, config, lastDone, nact, actor, viewVars>>

\* (mutant) the with block takes no lock
LockIgnored(c) == TRUE

\* RLock: free, or already held by the calling thread
LockFree(c) == lock \in {"", c}

\* with self.lock: ... stop_all_locked(): for t in list(self.threads.values())
Acquire(c) ==
  /\ cpc[c] = "acquire"
  /\ LockFree(c)
  /\ lock' = c
  /\ cargs' = [cargs EXCEPT ![c].snap = DictValues(threads),
                            ![c].old = DictKeys(getters)]
  /\ cpc' = [cpc EXCEPT ![c] = "stop_loop"]
  /\ UNCHANGED <<now, mos, threads, getters, config, ncalls, lastDone, nact, actor, viewVars>>

\* CaptureThread.stop, first statement: self.stop_flag = True
StopSetFlag(c) ==
  /\ cpc[c] = "stop_loop"
  /\ cargs[c].snap # <<>>
  /\ actor' = [actor EXCEPT ![Head(cargs[c].snap)].stop_flag = TRUE]
  /\ cpc' = [cpc EXCEPT ![c] = "stop_rel"]
  /\ UNCHANGED <<now, mos, lock, threads, getters, config, cargs, ncalls, lastDone, nact, viewVars>>

\* CaptureThread.stop, second statement: if self.cap is not None: self.cap.release()
StopRelease(c) ==
  /\ cpc[c] = "stop_rel"
  /\ LET t == Head(cargs[c].snap) IN
       actor' = [actor EXCEPT ![t] = ReleaseCap(actor[t], TRUE)]
  /\ cargs' = [cargs EXCEPT ![c].snap = Tail(@)]
  /\ cpc' = [cpc EXCEPT ![c] = "stop_loop"]
  /\ UNCHANGED <<now, mos, lock, threads, getters, config, ncalls, lastDone, nact, viewVars>>

\* stop_all: the loop is over and the lock is released
StopAllDone(c) ==
  /\ cpc[c] = "stop_loop"
  /\ cargs[c].snap = <<>>
  /\ cargs[c].op = "stop"
  /\ lock' = ""
  /\ cpc' = [cpc EXCEPT ![c] = "idle"]
  /\ cargs' = [cargs EXCEPT ![c] = NoArgs]
  /\ UNCHANGED <<now, mos, threads, getters, config, ncalls, lastDone, nact, actor, viewVars>>

\* (mutant) self.getters.clear() is forgotten
ClearThreadsOnly(c) ==
  /\ cpc[c] = "stop_loop"
  /\ cargs[c].snap = <<>>
  /\ cargs[c].op = "start"
  /\ threads' = <<>>
  /\ cpc' = [cpc EXCEPT ![c] = "update"]
  /\ UNCHANGED <<now, mos, lock, getters, config, cargs, ncalls, lastDone, nact, actor, viewVars>>

\* start_streams: self.threads.clear(); self.getters.clear()
Clear(c) ==
  /\ cpc[c] = "stop_loop"
  /\ cargs[c].snap = <<>>
  /\ cargs[c].op = "start"
  /\ threads' = <<>>
  /\ getters' = <<>>
  /\ cpc' = [cpc EXCEPT ![c] = "update"]
  /\ UNCHANGED <<now, mos, lock, config, cargs, ncalls, lastDone, nact, actor, viewVars>>

\* self.config.update({...})
UpdateConfig(c) ==
  /\ cpc[c] = "update"
  /\ config' = [channels |-> cargs[c].chs, target_height |-> cargs[c].th,
                by |-> cargs[c].id]
  /\ cpc' = [cpc EXCEPT ![c] = "start_loop"]
  /\ UNCHANGED <<now, mos, lock, threads, getters, cargs, ncalls, lastDone, nact, actor, viewVars>>

\* for ch in channels: t = CaptureThread(...); t.start(): the new thread
\* runs from here on, before it is registered
StartOne(c) ==
  /\ cpc[c] = "start_loop"
  /\ cargs[c].rem # <<>>
  /\ LET ch == Head(cargs[c].rem)
         t == nact + 1 IN
       /\ nact' = t
       /\ actor' = [actor EXCEPT ![t] = NewActor(ch, cargs[c].th, cargs[c].id, now)]
       /\ cargs' = [cargs EXCEPT ![c].rem = Tail(@), ![c].ch = ch, ![c].t = t]
  /\ cpc' = [cpc EXCEPT ![c] = "set_thread"]
  /\ UNCHANGED <<now, mos, lock, threads, getters, config, ncalls, lastDone, viewVars>>

\* self.threads[ch] = t
SetThread(c) ==
  /\ cpc[c] = "set_thread"
  /\ threads' = DictSet(threads, cargs[c].ch, cargs[c].t)
  /\ cpc' = [cpc EXCEPT ![c] = "set_getter"]
  /\ UNCHANGED <<now, mos, lock, getters, config, cargs, ncalls, lastDone, nact, actor,
                 viewVars>>

\* self.getters[ch] = t.get_frame
SetGetter(c) ==
  /\ cpc[c] = "set_getter"
  /\ getters' = DictSet(getters, cargs[c].ch, cargs[c].t)
  /\ cargs' = [cargs EXCEPT ![c].ch = 0, ![c].t = 0]
  /\ cpc' = [cpc EXCEPT ![c] = "start_loop"]
  /\ UNCHANGED <<now, mos, lock, threads, config, ncalls, lastDone, nact, actor, viewVars>>

\* start_streams returns: the with block ends
Finish(c) ==
  /\ cpc[c] = "start_loop"
  /\ cargs[c].rem = <<>>
  /\ lock' = ""
  /\ lastDone' = [id |-> cargs[c].id, chs |-> cargs[c].chs, th |-> cargs[c].th]
  /\ cpc' = [cpc EXCEPT ![c] = "idle"]
  /\ cargs' = [cargs EXCEPT ![c] = NoArgs]
  /\ UNCHANGED <<now, mos, threads, getters, config, ncalls, nact, actor, viewVars>>

CallerStep(c) ==
  \/ \E raw \in RawInputs, th \in TargetHeights : CallStart(c, raw, th)
  \/ CallStopAll(c)
  \/ Acquire(c) \/ StopSetFlag(c) \/ StopRelease(c) \/ StopAllDone(c)
  \/ Clear(c) \/ UpdateConfig(c) \/ StartOne(c) \/ SetThread(c) \/ SetGetter(c)
  \/ Finish(c)

\* ------------------------------------------------- HTTP handlers, viewers
\* STATE.getters.get(ch): None when the key is missing. No lock is taken.
GetAccessor(ch) == IF DictHas(getters, ch) THEN DictGet(getters, ch) ELSE 0

\* The channel sets before and after the reconfigure that holds the lock, if
\* one does; else the current key set twice.
Reconfiguring == { c \in Callers : lock = c /\ cargs[c].op = "start" }
OldKeys == IF Reconfiguring = {} THEN DictKeys(getters)
           ELSE cargs[CHOOSE c \in Reconfiguring : TRUE].old
NewKeys == IF Reconfiguring = {} THEN DictKeys(getters)
           ELSE Range(cargs[CHOOSE c \in Reconfiguring : TRUE].chs)

\* channel_mjpg: g = STATE.getters.get(ch); 404 if not g, else a Response
\* that iterates mjpeg_generator(g)
ChannelMjpg(v, ch) ==
  /\ vpc[v] = "idle"
  /\ LET g == GetAccessor(ch) IN
       /\ look' = [ch |-> ch, found |-> g # 0, old |-> OldKeys, new |-> NewKeys]
       /\ IF g = 0
            THEN UNCHANGED <<vpc, vsrc, venc>>
            ELSE /\ vpc' = [vpc EXCEPT ![v] = "new"]
                 /\ vsrc' = [vsrc EXCEPT ![v] = g]
                 /\ venc' = [venc EXCEPT ![v] = NewEnc(DefaultFps)]
  /\ UNCHANGED <<now, mos, ctlVars, nact, actor, vframe, marks>>

\* (mutant) get_frame returns self.frame itself
GetFrameNoCopy(v, a) == actor[a].frame

\* CaptureThread.get_frame: None if self.frame is None else self.frame.copy()
\* The copy is a new array with the pixels of the original, overlays included.
GetFrame(v, a) ==
  IF actor[a].frame = NoFrame THEN NoFrame
  ELSE [actor[a].frame EXCEPT
          !.id = FreshId("v", v, { vframe[u].id : u \in Viewers \ {v} })]

\* the pixels of array src as they are now, in the array named dst
CopyMarks(src, dst) ==
  { m \in marks : m[1] # dst } \cup { <<dst, m[2]>> : m \in { x \in marks : x[1] = src } }

\* d more ticks have gone by since the last chunk, if there was one
Later(e, d) == [e EXCEPT !.since = IF @ = -1 THEN -1 ELSE @ + d]
Followed(e, d) == e.since = -1 \/ e.since + d <= MaxSince
\* the next iteration of the while loop begins
NextIteration(e) == [e EXCEPT !.work = 0, !.ok = FALSE, !.sent = 0]

\* the transport asks for the first chunk: the generator's body begins
FirstNext(v) ==
  /\ vpc[v] = "new"
  /\ vpc' = [vpc EXCEPT ![v] = "pull"]
  /\ UNCHANGED <<now, mos, ctlVars, nact, actor, look, vsrc, vframe, venc, marks>>

\* mjpeg_generator: frame = get_bgr_frame_fn(); if frame is None ...
Pull(v) ==
  /\ vpc[v] = "pull"
  /\ LET f == GetFrame(v, vsrc[v]) IN
       /\ vframe' = [vframe EXCEPT ![v] = f]
       /\ vpc' = [vpc EXCEPT ![v] = IF f = NoFrame THEN "nap" ELSE "overlay"]
       /\ UNCHANGED <<now, mos, ctlVars, nact, actor, look, vsrc, venc>>
       /\ marks' = Gc(IF f = NoFrame \/ f.id = actor[vsrc[v]].frame.id THEN marks
                      ELSE CopyMarks(actor[vsrc[v]].frame.id, f.id),
                      Refs(actor', vframe'))

\* ... time.sleep(0.03); continue
Nap(v) ==
  /\ vpc[v] = "nap"
  /\ Followed(venc[v], NapTicks)
  /\ venc' = [venc EXCEPT ![v] = NextIteration(Later(@, NapTicks))]
  /\ vpc' = [vpc EXCEPT ![v] = "pull"]
  /\ UNCHANGED <<now, mos, ctlVars, nact, actor, look, vsrc, vframe, marks>>

\* cv2.putText(frame, ts, ...); cv2.putText(frame, "FPS ~ ...", ...): the
\* viewer draws on the array its frame variable refers to
Overlay(v) ==
  /\ vpc[v] = "overlay"
  /\ marks' = marks \cup {<<vframe[v].id, v>>}
  /\ vpc' = [vpc EXCEPT ![v] = "encode"]
  /\ UNCHANGED <<now, mos, ctlVars, nact, actor, look, vsrc, vframe, venc>>

\* ok, jpeg = cv2.imencode(".jpg", frame, enc_param)
Encode(v) ==
  /\ vpc[v] = "encode"
  /\ \E ok \in BOOLEAN : venc' = [venc EXCEPT ![v].ok = ok]
  /\ vpc' = [vpc EXCEPT ![v] = "encoded"]
  /\ UNCHANGED <<now, mos, ctlVars, nact, actor, look, vsrc, vframe, marks>>

\* (mutant) a failed encoding ends the generator
EncodeFailedEnds(v) ==
  /\ vpc[v] = "encoded"
  /\ ~venc[v].ok
  /\ vpc' = [vpc EXCEPT ![v] = "idle"]
  /\ UNCHANGED <<now, mos, ctlVars, nact, actor, look, vsrc, vframe, venc, marks>>

\* if not ok: continue
EncodeFailed(v) ==
  /\ vpc[v] = "encoded"
  /\ ~venc[v].ok
  /\ venc' = [venc EXCEPT ![v] = NextIteration(@)]
  /\ vpc' = [vpc EXCEPT ![v] = "pull"]
  /\ UNCHANGED <<now, mos, ctlVars, nact, actor, look, vsrc, vframe, marks>>

\* yield boundary + ... + jpeg.tobytes() + ...: one chunk goes to the transport
Yield(v) ==
  /\ vpc[v] = "encoded"
  /\ venc[v].ok
  /\ venc' = [venc EXCEPT ![v].sent = @ + 1, ![v].since = 0]
  /\ vpc' = [vpc EXCEPT ![v] = "pace"]
  /\ UNCHANGED <<now, mos, ctlVars, nact, actor, look, vsrc, vframe, marks>>

\* 1.0/fps seconds, in ticks
Interval(fps) == TicksPerSecond \div fps

\* (mutant) no sleep after a chunk
PaceNone(fps, work) == 0

\* the argument of the sleep after a chunk: max(0, 1.0/fps)
PaceSleep(fps, work) == Max(0, Interval(fps))

\* time.sleep(max(0, 1.0/fps)) after the chunk was taken
Pace(v) ==
  /\ vpc[v] = "pace"
  /\ venc' = [venc EXCEPT ![v] =
                NextIteration(Later(@, PaceSleep(venc[v].fps, venc[v].work)))]
  /\ vpc' = [vpc EXCEPT ![v] = "pull"]
  /\ UNCHANGED <<now, mos, ctlVars, nact, actor, look, vsrc, vframe, marks>>

\* WorkTick ticks go by while the generator pulls, draws or encodes
Working == {"pull", "overlay", "encode"}
Elapse(v) ==
  /\ vpc[v] \in Working
  /\ venc[v].work + WorkTick <= MaxWork
  /\ Followed(venc[v], WorkTick)
  /\ venc' = [venc EXCEPT ![v] = [Later(@, WorkTick) EXCEPT !.work = @ + WorkTick]]
  /\ UNCHANGED <<now, mos, ctlVars, nact, actor, look, vpc, vsrc, vframe, marks>>

\* The client goes away and the transport closes the generator. A
\* generator can be closed only where it is suspended: before its first
\* statement, or at the yield.
Suspended == {"new", "pace"}
Disconnect(v) ==
  /\ vpc[v] \in Suspended
  /\ vpc' = [vpc EXCEPT ![v] = "idle"]
  /\ vsrc' = [vsrc EXCEPT ![v] = 0]
  /\ vframe' = [vframe EXCEPT ![v] = NoFrame]
  /\ venc' = [venc EXCEPT ![v] = NoEnc]
  /\ UNCHANGED <<now, mos, ctlVars, nact, actor, look>>
  /\ marks' = Gc(marks, Refs(actor', vframe'))

ViewerStep(v) ==
  \/ FirstNext(v) \/ Pull(v) \/ Nap(v) \/ Overlay(v) \/ Encode(v)
  \/ EncodeFailed(v) \/ Yield(v) \/ Pace(v)

\* ---------------------------------------------------------- mosaic getters
\* frames = [g() for g in getters], each with the index of its accessor
Indexed(res) == [i \in 1..Len(res) |-> [i |-> i - 1, f |-> res[i]]]
IsFrame(p) == p.f # NoImg
\* frames = [f for f in frames if f is not None]
Available(res) == SelectSeq(Indexed(res), IsFrame)

\* max(f.shape[0] for f in frames), sum(f.shape[1] for f in frames)
RECURSIVE MaxHeight(_)
MaxHeight(fs) == IF Len(fs) = 1 THEN fs[1].f.h ELSE Max(fs[1].f.h, MaxHeight(Tail(fs)))
RECURSIVE SumWidth(_)
SumWidth(fs) == IF fs = <<>> THEN 0 ELSE fs[1].f.w + SumWidth(Tail(fs))

\* canvas[y1:y2, x1:x2] = the frame of accessor i (or a blank one)
Paste(i, blank, y1, y2, x1, x2) ==
  [i |-> i, blank |-> blank, y1 |-> y1, y2 |-> y2, x1 |-> x1, x2 |-> x2]

\* x = 0; for f in frames: canvas[0:hh, x:x+ww] = f; x += ww
RECURSIVE RowPastes(_, _)
RowPastes(fs, x) ==
  IF fs = <<>> THEN <<>>
  ELSE <<Paste(fs[1].i, FALSE, 0, fs[1].f.h, x, x + fs[1].f.w)>>
         \o RowPastes(Tail(fs), x + fs[1].f.w)

\* (mutant) sources that returned None are padded with the first frame's width
RowPadded(res) ==
  LET fs == Available(res) IN
    IF fs = <<>> THEN NoCanvas
    ELSE [kind |-> "canvas", h |-> MaxHeight(fs),
          w |-> SumWidth(fs) + (Len(res) - Len(fs)) * fs[1].f.w,
          pastes |-> RowPastes(fs, 0)]

\* mosaic_getter_row(getters)._getter()
MosaicRow(res) ==
  LET fs == Available(res) IN
    IF fs = <<>> THEN NoCanvas
    ELSE [kind |-> "canvas", h |-> MaxHeight(fs), w |-> SumWidth(fs),
          pastes |-> RowPastes(fs, 0)]

\* cell_w = int(cell_h * 16/9)
CellW(cell_h) == (cell_h * 16) \div 9
\* math.ceil(len(frames) / cols)
CeilDiv(n, d) == (n + d - 1) \div d

\* (mutant) the grid is filled column by column
GridColumnMajor(res, cols, cell_h) ==
  LET cell_w == CellW(cell_h)
      rows == CeilDiv(Len(res), cols) IN
    IF res = <<>> THEN NoCanvas
    ELSE [kind |-> "canvas", h |-> rows * cell_h, w |-> cols * cell_w,
          pastes |-> [k \in 1..Len(res) |->
             LET r == (k - 1) % rows
                 c == (k - 1) \div rows IN
               Paste(k - 1, res[k] = NoImg, r * cell_h, (r + 1) * cell_h,
                     c * cell_w, (c + 1) * cell_w)]]

\* mosaic_getter_grid(getters, cols, cell_h)._getter(): a None frame is
\* replaced by a blank one, every frame is resized to (cell_w, cell_h) and
\* assigned to the cell of its index
MosaicGrid(res, cols, cell_h) ==
  LET cell_w == CellW(cell_h)
      rows == CeilDiv(Len(res), cols) IN
    IF res = <<>> THEN NoCanvas
    ELSE [kind |-> "canvas", h |-> rows * cell_h, w |-> cols * cell_w,
          pastes |-> [k \in 1..Len(res) |->
             LET r == (k - 1) \div cols
                 c == (k - 1) % cols IN
               Paste(k - 1, res[k] = NoImg, r * cell_h, (r + 1) * cell_h,
                     c * cell_w, (c + 1) * cell_w)]]

\* the row getter is called
RowGetter ==
  /\ mos.mode = "row"
  /\ mos.out = NotCalled
  /\ mos' = [mos EXCEPT !.out = MosaicRow(mos.res)]
  /\ UNCHANGED <<now, ctlVars, nact, actor, viewVars>>

\* the grid getter is called
GridGetter ==
  /\ mos.mode = "grid"
  /\ mos.out = NotCalled
  /\ mos' = [mos EXCEPT !.out = MosaicGrid(mos.res, mos.cols, mos.cell_h)]
  /\ UNCHANGED <<now, ctlVars, nact, actor, viewVars>>

\* --------------------------------------------------------- specifications
\* The whole program.
Next ==
  \/ \E c \in Callers : CallerStep(c)
  \/ \E a \in ActorIds : ActorStep(a)
  \/ \E v \in Viewers, ch \in Channels : ChannelMjpg(v, ch)
  \/ \E v \in Viewers : ViewerStep(v) \/ Elapse(v) \/ Disconnect(v)
  \/ Tick
  \/ RowGetter \/ GridGetter
Sys == Init /\ [][Next]_vars

\* The controller and the handlers that look accessors up. The capture
\* threads are not scheduled: they write nothing but their own fields, which
\* the controller reads only to release a handle.
NextCtl ==
  \/ \E c \in Callers : CallerStep(c)
  \/ \E v \in {1}, ch \in Channels : ChannelMjpg(v, ch)
  \/ \E v \in {1} : Disconnect(v)
Spec == Init /\ [][NextCtl]_vars

\* One thread calling into STATE with the channel lists the /connect form
\* sends, and the capture threads it starts.
FormInputs == { RawList(<<IntEl(1)>>), RawList(<<IntEl(1), IntEl(2)>>) }
NextLife ==
  \/ \E raw \in FormInputs, th \in {360} : CallStart("t1", raw, th)
  \/ CallStopAll("t1")
  \/ Acquire("t1") \/ StopSetFlag("t1") \/ StopRelease("t1") \/ StopAllDone("t1")
  \/ Clear("t1") \/ UpdateConfig("t1") \/ StartOne("t1") \/ SetThread("t1")
  \/ SetGetter("t1") \/ Finish("t1")
  \/ \E a \in ActorIds : ActorStep(a)
SpecLife == Init /\ [][NextLife]_vars

\* The state when start_streams(channels=(1,), target_height=th) has returned.
Started(th) ==
  /\ now = StartTime
  /\ lock = ""
  /\ threads = <<<<1, 1>>>>
  /\ getters = <<<<1, 1>>>>
  /\ config = [channels |-> <<1>>, target_height |-> th, by |-> 1]
  /\ cpc = [c \in Callers |-> "idle"]
  /\ cargs = [c \in Callers |-> NoArgs]
  /\ ncalls = 1
  /\ lastDone = [id |-> 1, chs |-> <<1>>, th |-> th]
  /\ nact = 1
  /\ actor = [a \in ActorIds |-> IF a = 1 THEN NewActor(1, th, 1, StartTime) ELSE Unborn]
  /\ look = NoLook
  /\ vpc = [v \in Viewers |-> "idle"]
  /\ vsrc = [v \in Viewers |-> 0]
  /\ vframe = [v \in Viewers |-> NoFrame]
  /\ venc = [v \in Viewers |-> NoEnc]
  /\ marks = {}
  /\ mos = NoMosaic
InitActor == \E th \in TargetHeights : Started(th)

\* One capture thread, the clock, and a stop_all that may stop the thread.
NextActor ==
  \/ ActorStep(1)
  \/ Tick
  \/ CallStopAll("t1") \/ Acquire("t1") \/ StopSetFlag("t1") \/ StopRelease("t1")
  \/ StopAllDone("t1")
SpecActor == InitActor /\ [][NextActor]_vars

\* One capture thread and the viewers of its channel.
NextView ==
  \/ ActorStep(1)
  \/ \E v \in Viewers, ch \in Channels : ChannelMjpg(v, ch)
  \/ \E v \in Viewers : ViewerStep(v) \/ Disconnect(v)
SpecView == InitActor /\ [][NextView]_vars

\* The state when start_streams(channels=(1,), target_height=th) has returned
\* and a transport is about to iterate mjpeg_generator(g, fps=fps) on the
\* accessor g of channel 1.
Streaming(th, fps) ==
  /\ now = StartTime
  /\ lock = ""
  /\ threads = <<<<1, 1>>>>
  /\ getters = <<<<1, 1>>>>
  /\ config = [channels |-> <<1>>, target_height |-> th, by |-> 1]
  /\ cpc = [c \in Callers |-> "idle"]
  /\ cargs = [c \in Callers |-> NoArgs]
  /\ ncalls = 1
  /\ lastDone = [id |-> 1, chs |-> <<1>>, th |-> th]
  /\ nact = 1
  /\ actor = [a \in ActorIds |-> IF a = 1 THEN NewActor(1, th, 1, StartTime) ELSE Unborn]
  /\ look = [ch |-> 1, found |-> TRUE, old |-> {1}, new |-> {1}]
  /\ vpc = [v \in Viewers |-> IF v = 1 THEN "new" ELSE "idle"]
  /\ vsrc = [v \in Viewers |-> IF v = 1 THEN 1 ELSE 0]
  /\ vframe = [v \in Viewers |-> NoFrame]
  /\ venc = [v \in Viewers |-> IF v = 1 THEN NewEnc(fps) ELSE NoEnc]
  /\ marks = {}
  /\ mos = NoMosaic
InitPace == \E th \in TargetHeights, fps \in Rates : Streaming(th, fps)

\* One stream encoder, the capture thread it pulls from, and the time its
\* work takes.
NextPace ==
  \/ ActorStep(1)
  \/ ViewerStep(1)
  \/ Elapse(1)
  \/ Disconnect(1)
SpecPace == InitPace /\ [][NextPace]_vars

\* The same, with the encoder's thread scheduled again and again: the
\* transport keeps asking the generator for its next chunk.
SpecEnc == InitPace /\ [][NextPace]_vars /\ WF_vars(ViewerStep(1))

\* A mosaic getter made for accessors that return the frames (or None) of
\* res, before its first call.
Results == {NoImg} \cup { Img(d[1], d[2]) : d \in Shapes }
ResultLists == UNION { [1..n -> Results] : n \in 0..MaxSources }
InitMosaic ==
  /\ now = StartTime
  /\ lock = ""
  /\ threads = <<>>
  /\ getters = <<>>
  /\ config = [channels |-> <<1, 2>>, target_height |-> 360, by |-> 0]
  /\ cpc = [c \in Callers |-> "idle"]
  /\ cargs = [c \in Callers |-> NoArgs]
  /\ ncalls = 0
  /\ lastDone = NoCall
  /\ nact = 0
  /\ actor = [a \in ActorIds |-> Unborn]
  /\ look = NoLook
  /\ vpc = [v \in Viewers |-> "idle"]
  /\ vsrc = [v \in Viewers |-> 0]
  /\ vframe = [v \in Viewers |-> NoFrame]
  /\ venc = [v \in Viewers |-> NoEnc]
  /\ marks = {}
  /\ \E res \in ResultLists :
       \/ mos = [mode |-> "row", res |-> res, cols |-> 0, cell_h |-> 0, out |-> NotCalled]
       \/ \E cols \in 1..MaxCols, cell_h \in CellHeights :
            mos = [mode |-> "grid", res |-> res, cols |-> cols, cell_h |-> cell_h,
                   out |-> NotCalled]
NextMosaic == RowGetter \/ GridGetter
SpecMosaic == InitMosaic /\ [][NextMosaic]_vars

\* ----------------------------------------------------------------- claims
Quiet == \A c \in Callers : cpc[c] = "idle"
Requested == Range(lastDone.chs)
Cached(ch) == DictGet(getters, ch)

\* C1: once the last successful start_streams has returned and no call is in
\* progress, the keys of STATE.getters are exactly the channels of that call:
\* a lookup finds every requested channel and no other.
C1_CacheKeysAreLastRequested ==
  (Quiet /\ lastDone.id # 0) =>
     /\ DictKeys(getters) = Requested
     /\ \A ch \in Channels : (GetAccessor(ch) # 0) <=> (ch \in Requested)
\* a second configuration, disjoint from the first, is in place
C1_Witness ==
  /\ Quiet
  /\ lastDone.id = 2 /\ lastDone.chs = <<2>>
  /\ actor[1].ch = 1 /\ actor[1].gen = 1
  /\ GetAccessor(1) = 0 /\ GetAccessor(2) # 0

\* C2: a lookup made while a reconfigure holds the lock answers as the old
\* channel set or as the new one would, never as the emptied or half-filled
\* mapping in between.
C2_LookupSeesOldOrNew ==
  look.ch # 0 =>
     \/ look.found <=> (look.ch \in look.old)
     \/ look.found <=> (look.ch \in look.new)

\* C3: two start_streams calls never interleave: at most one thread is
\* between acquiring and releasing the lock, what is in the cache while a call
\* fills it was put there by that call, and once all calls have returned the
\* cache and the stored configuration come from the same call.
Starting == {"start_loop", "set_thread", "set_getter"}
InCritical(c) == cpc[c] \in {"stop_loop", "stop_rel", "update"} \cup Starting
C3_ReconfiguresSerialize ==
  /\ \A c1, c2 \in Callers : InCritical(c1) /\ InCritical(c2) => c1 = c2
  /\ \A c \in Callers :
       cpc[c] \in Starting =>
         /\ config.by = cargs[c].id
         /\ \A ch \in DictKeys(getters) : actor[Cached(ch)].gen = cargs[c].id
  /\ (Quiet /\ lastDone.id # 0) =>
         /\ config.by = lastDone.id
         /\ config.channels = lastDone.chs
         /\ \A ch \in DictKeys(getters) : actor[Cached(ch)].gen = lastDone.id
\* one call is starting its actors while another waits for the lock
C3_Witness ==
  \E c1, c2 \in Callers :
    /\ c1 # c2
    /\ cpc[c1] = "start_loop" /\ cargs[c1].rem = <<>>
    /\ cpc[c2] = "acquire" /\ cargs[c2].op = "start"

\* C7: when no call is in progress, every channel in STATE.getters belongs
\* to a capture thread that was started and has not been told to stop.
Running(r) == r.pc \notin {"unborn", "done"} /\ ~r.stop_flag
C7_CachedActorsRun ==
  Quiet => \A ch \in DictKeys(getters) : Running(actor[Cached(ch)])

\* C4: no capture thread of an earlier configuration is still in its read
\* loop, past the stop test and so about to read, reopen or publish, while a
\* thread of a later configuration has been started.
InReadLoop(r) == r.pc \in {"read", "reading", "failed", "reopening"}
Born(r) == r.pc # "unborn"
C4_OldStoppedBeforeNewStarts ==
  \A a, b \in ActorIds :
    ~(Born(actor[a]) /\ Born(actor[b]) /\ actor[a].gen < actor[b].gen
        /\ InReadLoop(actor[a]))

\* C5: once the call that stopped a capture thread has returned and the
\* thread has ended, every connection the thread opened has been released
\* exactly once.
Handles(r) == r.dropped \cup (IF r.cap # 0 THEN {r.handle} ELSE {})
C5_HandlesReleasedOnce ==
  \A a \in ActorIds :
    (Quiet /\ actor[a].stop_flag /\ actor[a].pc = "done") =>
       \A h \in Handles(actor[a]) : h.opened => h.rel = 1

\* C6: no thread but the capture thread itself ever operates on one of its
\* VideoCapture objects.
C6_OnlyOwnerTouchesHandle ==
  \A a \in ActorIds : \A h \in Handles(actor[a]) : h.relOther = 0

\* C8 as stated: a running capture thread that never connected has a
\* placeholder frame once more than reconnect_delay_s has gone by since its
\* start.
NeverConnected(r) == Born(r) /\ ~r.succ /\ ~r.stop_flag
C8_PlaceholderWithinCooldown ==
  \A a \in ActorIds :
    (NeverConnected(actor[a]) /\ now - actor[a].born > ReconnectDelay) =>
       actor[a].frame # NoFrame

\* C8 as amended: a running capture thread that never connected has no frame
\* only during its first pass through the loop, up to the return of the one
\* reopen its first failed read begins; the frame it then has is a
\* target_h x target_h placeholder, and a frame once stored is never replaced
\* by none.
FirstPass(r) ==
  /\ r.pc \in {"start", "opening", "loop", "read", "failed", "reopening"}
  /\ r.last_try = 0
  /\ r.pc # "reopening" => r.last_attempt = 0
C8_PlaceholderAfterFirstPass ==
  /\ [](\A a \in ActorIds :
          NeverConnected(actor[a]) =>
            IF actor[a].frame = NoFrame THEN FirstPass(actor[a])
            ELSE /\ actor[a].frame.kind = "ph"
                 /\ actor[a].frame.h = actor[a].target_h
                 /\ actor[a].frame.w = actor[a].target_h)
  /\ [][\A a \in ActorIds : actor[a].frame # NoFrame => actor'[a].frame # NoFrame]_vars
\* a thread that never connected serves its placeholder, and the first pass
\* took longer than the cool-down
C8_Witness ==
  /\ NeverConnected(actor[1])
  /\ actor[1].frame.kind = "ph"
  /\ actor[1].last_try - actor[1].born > ReconnectDelay

\* C9: a failed read begins exactly one reopen when at least reconnect_delay_s
\* has gone by since last_try and none otherwise; the time the reopen returned
\* is recorded; two reopens of one thread are at least reconnect_delay_s apart.
C9_ReopenOnlyAfterCooldown ==
  /\ [](\A a \in ActorIds :
          /\ actor[a].gap = -1 \/ actor[a].gap >= ReconnectDelay
          /\ actor[a].pc = "sleep" => actor[a].last_try >= actor[a].last_attempt)
  /\ [][\A a \in ActorIds :
          /\ (actor[a].pc = "failed" /\ actor'[a].pc # "failed") =>
               IF now - actor[a].last_try >= ReconnectDelay
                 THEN /\ actor'[a].pc = "reopening"
                      /\ actor'[a].last_attempt = now
                 ELSE /\ actor'[a].pc = "sleep"
                      /\ actor'[a].last_attempt = actor[a].last_attempt
                      /\ actor'[a].handle = actor[a].handle
          /\ (actor[a].pc = "reopening" /\ actor'[a].pc # "reopening") =>
               actor'[a].last_try = now
          /\ (actor[a].pc # "failed" /\ actor'[a].pc = "reopening") =>
               actor[a].pc = "reopening"]_vars
\* a second reopen has begun, a cool-down after the first, and a failed read
\* in between began none
C9_Witness ==
  /\ actor[1].gap >= ReconnectDelay
  /\ actor[1].pc = "sleep"
  /\ now - actor[1].last_try < ReconnectDelay
  /\ now > actor[1].last_attempt

\* C10: what get_frame returns is an array of its own: it is not the array
\* the capture thread holds nor the one another viewer holds, so the capture
\* thread's frame carries no viewer's overlay and a viewer's frame carries no
\* overlay but its own.
C10_ReadersGetPrivateCopies ==
  /\ \A a \in ActorIds : \A m \in marks : m[1] # actor[a].frame.id
  /\ \A v \in Viewers :
       vframe[v] # NoFrame =>
         /\ \A a \in ActorIds : vframe[v].id # actor[a].frame.id
         /\ \A u \in Viewers \ {v} : vframe[u].id # vframe[v].id
         /\ \A m \in marks : m[1] = vframe[v].id => m[2] = v
\* two viewers of one channel have both drawn their overlays on a frame
C10_Witness ==
  /\ vsrc[1] = 1 /\ vsrc[2] = 1
  /\ vpc[1] = "encode" /\ vpc[2] = "encode"
  /\ <<vframe[1].id, 1>> \in marks /\ <<vframe[2].id, 2>> \in marks
  /\ actor[1].frame # NoFrame

\* C11: numbering the frames a capture thread publishes 1, 2, 3, ..., the
\* numbers of the frames one viewer gets from successive get_frame calls on
\* that thread never decrease, and every frame a viewer gets is a finished
\* one: it is labelled, it is one the thread has published, and if it has the
\* number of the thread's current frame it has that frame's kind and size.
SameFrame(f, g) == f.kind = g.kind /\ f.h = g.h /\ f.w = g.w /\ f.label = g.label
C11_ReadsNeverGoBack ==
  /\ [](\A v \in Viewers :
          vframe[v] # NoFrame =>
            /\ vframe[v].label
            /\ vframe[v].seq \in 1..actor[vsrc[v]].npub
            /\ vframe[v].seq = actor[vsrc[v]].frame.seq =>
                 SameFrame(vframe[v], actor[vsrc[v]].frame))
  /\ [][\A v \in Viewers :
          (vsrc[v] # 0 /\ vsrc'[v] = vsrc[v]) => vframe'[v].seq >= vframe[v].seq]_vars
\* a viewer that has drawn on its copy of one frame of a thread pulls again
\* after the thread has published the next, a live one
C11_Witness ==
  /\ vsrc[1] = 1 /\ vpc[1] = "pull"
  /\ vframe[1].seq = MaxPub - 1 /\ <<vframe[1].id, 1>> \in marks
  /\ actor[1].frame.seq = MaxPub
  /\ actor[1].frame.kind = "live"

\* C19: a start_streams call that ends in the step that enters it, which is
\* what a call with an argument _coerce_channels rejects does, leaves the
\* lock, the actor map, the accessor cache, the configuration and every
\* capture thread as they were.
C19_InvalidArgumentTouchesNothing ==
  [][(ncalls' = ncalls + 1 /\ cpc' = cpc) =>
       /\ UNCHANGED <<lock, threads, getters, config, lastDone, nact>>
       /\ actor' = actor]_vars
\* after a first configuration a second call was made and rejected: the
\* threads of the first are registered, cached and not stopped
C19_Witness ==
  /\ Quiet
  /\ ncalls = 2 /\ lastDone.id = 1
  /\ DictKeys(getters) = {1, 2} /\ DictKeys(threads) = {1, 2}
  /\ \A ch \in {1, 2} : ~actor[DictGet(threads, ch)].stop_flag

\* C20: when no call is in progress, every capture thread that was started
\* and has not been told to stop is a value of STATE.threads, where the next
\* stop_all_locked will find it.
Registered == Range(DictValues(threads))
C20_RunningActorsAreRegistered ==
  Quiet => \A a \in ActorIds : Running(actor[a]) => a \in Registered

\* C12: the generator leaves its loop only when the transport closes it; an
\* iteration that got no frame or whose encoding failed ends with no chunk
\* yielded, one that got a frame and encoded it ends with exactly one; a chunk
\* is only ever yielded after a successful encoding; and if the encoder gets
\* frames again and again and encoding succeeds again and again, it yields
\* chunks again and again.
IterationEnds(v) == vpc[v] \in {"nap", "encoded", "pace"} /\ vpc'[v] = "pull"
C12_EncoderNeverEndsItself ==
  /\ [][\A v \in Viewers :
          /\ (vpc[v] # "idle" /\ vpc'[v] = "idle") => Disconnect(v)
          /\ IterationEnds(v) =>
               venc[v].sent = IF vframe[v] # NoFrame /\ venc[v].ok THEN 1 ELSE 0
          /\ venc'[v].sent > venc[v].sent =>
               /\ vpc[v] = "encoded" /\ venc[v].ok /\ vframe[v] # NoFrame
               /\ venc'[v].sent = 1]_vars
  /\ ([]<>(vpc[1] = "overlay") /\ []<>(vpc[1] = "encoded" /\ venc[1].ok))
        => []<>(vpc[1] = "pace" /\ venc[1].sent = 1)
\* the encoder begins an iteration after one in which encoding failed, which
\* followed one that yielded a chunk
C12_Witness ==
  /\ vpc[1] = "pull"
  /\ venc[1].work = 0
  /\ venc[1].since > Interval(venc[1].fps)

\* C13: when a chunk is yielded, at least 1/fps has gone by since the chunk
\* before it, whatever time pulling, drawing and encoding took. (Chunks that
\* are at least 1/fps apart number at most fps in any second.)
C13_ChunksAtLeastIntervalApart ==
  [][\A v \in Viewers :
       (vpc[v] = "encoded" /\ vpc'[v] = "pace") =>
          \/ venc[v].since = -1
          \/ venc[v].since >= Interval(venc[v].fps)]_vars
\* a second chunk is about to be yielded after an iteration that cost no time
C13_Witness ==
  /\ vpc[1] = "encoded" /\ venc[1].ok
  /\ venc[1].work = 0
  /\ venc[1].since = Interval(venc[1].fps)

\* C17: the sleep after a chunk lasts max(0, 1/fps - elapsed), elapsed being
\* the time the iteration has spent pulling, drawing and encoding.
C17_SleepsRemainder ==
  [][\A v \in Viewers :
       (vpc[v] = "pace" /\ vpc'[v] = "pull") =>
          venc'[v].since - venc[v].since =
            Max(0, Interval(venc[v].fps) - venc[v].work)]_vars

\* What a canvas shows in the rectangle of h rows from row y and w columns
\* from column x: nothing if no slice assigned into the canvas meets it, the
\* frame (or the blank) of the one slice that is exactly it, else a mixture.
Meets(p, y, x, h, w) == p.y1 < y + h /\ p.y2 > y /\ p.x1 < x + w /\ p.x2 > x
Fills(p, y, x, h, w) == p.y1 = y /\ p.y2 = y + h /\ p.x1 = x /\ p.x2 = x + w
Shown(out, y, x, h, w) ==
  LET on == { k \in 1..Len(out.pastes) : Meets(out.pastes[k], y, x, h, w) } IN
    IF on = {} THEN <<"blank">>
    ELSE IF Cardinality(on) = 1 /\ \A k \in on : Fills(out.pastes[k], y, x, h, w)
      THEN LET p == out.pastes[CHOOSE k \in on : TRUE] IN
             IF p.blank THEN <<"blank">> ELSE <<"frame", p.i>>
    ELSE <<"mixed">>
GridCalled == mos.mode = "grid" /\ mos.out # NotCalled /\ Len(mos.res) >= 1
RowCalled == mos.mode = "row" /\ mos.out # NotCalled

\* C14: the grid getter of n >= 1 accessors returns a canvas of ceil(n/cols)
\* rows of cells of height cell_h and cols columns of cells of one width; the
\* cell in row r and column c shows the frame of accessor r*cols + c if there
\* is such an accessor and it returned a frame, and is blank otherwise.
C14_GridLayout ==
  GridCalled =>
    LET n == Len(mos.res)
        cols == mos.cols
        h == mos.cell_h
        out == mos.out
        rows == CHOOSE k \in 1..n : k * cols >= n /\ (k - 1) * cols < n
        cw == out.w \div cols
    IN /\ out.kind = "canvas"
       /\ out.h = rows * h
       /\ out.w = cols * cw /\ cw > 0
       /\ \A r \in 0..(rows - 1), c \in 0..(cols - 1) :
            Shown(out, r * h, c * cw, h, cw) =
              IF r * cols + c < n /\ mos.res[r * cols + c + 1] # NoImg
                THEN <<"frame", r * cols + c>> ELSE <<"blank">>
\* five accessors in two columns: three rows, accessor 4 in row 2, column 0,
\* the cell beside it blank, and a source without a frame among the others
C14_Witness ==
  /\ GridCalled
  /\ Len(mos.res) = 5 /\ mos.cols = 2
  /\ mos.res[5] # NoImg /\ mos.res[2] = NoImg
  /\ mos.out.h = 3 * mos.cell_h
  /\ Shown(mos.out, 2 * mos.cell_h, 0, mos.cell_h, mos.out.w \div 2) = <<"frame", 4>>
  /\ Shown(mos.out, 2 * mos.cell_h, mos.out.w \div 2, mos.cell_h, mos.out.w \div 2) = <<"blank">>

\* C15: the row getter returns None when every accessor returned None; else
\* a canvas as high as the highest available frame and as wide as all of them
\* together, on which each available frame lies at the top, right of the
\* available frames before it, and nothing else lies.
RECURSIVE WidthOf(_, _)
WidthOf(res, S) ==
  IF S = {} THEN 0
  ELSE LET j == CHOOSE x \in S : TRUE IN res[j].w + WidthOf(res, S \ {j})
C15_RowLayout ==
  RowCalled =>
    LET res == mos.res
        out == mos.out
        have == { j \in 1..Len(res) : res[j] # NoImg }
    IN IF have = {} THEN out = NoCanvas
       ELSE /\ out.kind = "canvas"
            /\ \A j \in have : out.h >= res[j].h
            /\ \E j \in have : out.h = res[j].h
            /\ out.w = WidthOf(res, have)
            /\ Len(out.pastes) = Cardinality(have)
            /\ \A j \in have :
                 Shown(out, 0, WidthOf(res, { k \in have : k < j }), res[j].h, res[j].w)
                   = <<"frame", j - 1>>
\* frames of 200 x 100 and 300 x 150 around a source without a frame give a
\* canvas of 300 x 250
C15_Witness ==
  /\ RowCalled
  /\ mos.res = <<Img(200, 100), NoImg, Img(300, 150)>>
  /\ mos.out.h = 300 /\ mos.out.w = 250

\* C16: the grid getter of accessors that all returned None returns None.
C16_GridAllEmptyIsNoFrame ==
  (GridCalled /\ \A j \in 1..Len(mos.res) : mos.res[j] = NoImg) =>
     mos.out = NoCanvas

\* C18: the width of the grid's cells, and of the canvas divided by cols, is
\* 16/9 of cell_h rounded to the nearest integer.
Rounded(num, den) == (2 * num + den) \div (2 * den)
C18_CellWidthIsRounded ==
  GridCalled =>
    /\ mos.out.w = mos.cols * Rounded(16 * mos.cell_h, 9)
    /\ \A k \in 1..Len(mos.out.pastes) :
         mos.out.pastes[k].x2 - mos.out.pastes[k].x1 = Rounded(16 * mos.cell_h, 9)
====
